---------------------------- MODULE Spec2Model ----------------------------
(***************************************************************************)
(* State-machine model of the App component of src/index.tsx: the React   *)
(* state cells (image, analyzing, result, error, showCamera, history),    *)
(* the localStorage slot 'sehati_history', the preview element's          *)
(* srcObject, the camera streams handed out by getUserMedia, and the      *)
(* asynchronous operations in flight (camera requests, file decodes,      *)
(* analysis requests).  One action per event handler or per resolution    *)
(* of a suspended handler.                                                 *)
(***************************************************************************)
EXTENDS Integers, Sequences, FiniteSets

VARIABLES
    phase,      \* "mount": first render done, effects not yet run;
                \* "load": mount effects ran, loaded history not yet committed;
                \* "ready": the component is interactive
    loaded,     \* the argument of the setHistory call queued by the load effect
    image,      \* useState image   (Null or a data URL)
    analyzing,  \* useState analyzing
    result,     \* useState result  (Null or an AnalysisResult object)
    error,      \* useState error   (NoError or one of the three messages)
    showCamera, \* useState showCamera
    history,    \* useState history (sequence of AnalysisResult objects)
    storage,    \* localStorage slot 'sehati_history' (Absent or a text)
    videoSrc,   \* videoRef.current.srcObject: 0 = none, else a stream id
    live,       \* ids of the acquired streams whose tracks are still active
    camPending, \* number of getUserMedia promises not yet settled
    decoding,   \* files handed to a FileReader whose onloadend has not fired
    inflight,   \* images submitted by analyzeProduct calls not yet settled
    now,        \* the local clock (Date.now())
    deletes,    \* number of deleteHistoryItem calls so far (bounded)
    kept,       \* the history the user had when the page was last (re)loaded
    lastOp      \* the handler or resolution that produced this state

vars == <<phase, loaded, image, analyzing, result, error, showCamera, history,
          storage, videoSrc, live, camPending, decoding, inflight, now,
          deletes, kept, lastOp>>

---------------------------------------------------------------------------
(* Bounds of the model *)

MaxClock == 2        \* clock ticks (= analyses settled) explored per run
MaxDeletes == 1      \* deleteHistoryItem calls explored per run
MaxStreams == 2      \* camera streams that can be live at once
MaxCamPending == 2   \* getUserMedia calls that can be pending at once

(* Program constants *)

HistCap == 10                 \* .slice(0, 10)
MaxFileSize == 5 * 1024 * 1024

---------------------------------------------------------------------------
(* JavaScript values *)

Null == [type |-> "null"]

\* An object literal with the given fields (a function from field names).
Obj(fields) == [type |-> "object", fields |-> fields]

IsObj(v) == v.type = "object"

\* Faulty variant of the spread, { timestamp: ts, ...data }: a timestamp
\* field of data overrides the local one.
SpreadTimestampFirst(data, ts) ==
    LET copied == IF data.type = "object" THEN DOMAIN data.fields ELSE {}
    IN  [type |-> "object",
         fields |-> [f \in copied \cup {"timestamp"} |->
                        IF f \in copied THEN data.fields[f] ELSE ts]]

\* { ...data, timestamp: ts }: the own fields of data (none when data is
\* null), then timestamp, which overrides a timestamp field of data.
SpreadWithTimestamp(data, ts) ==
    LET copied == IF IsObj(data) THEN DOMAIN data.fields ELSE {}
    IN  Obj([f \in copied \cup {"timestamp"} |->
                IF f = "timestamp" THEN ts ELSE data.fields[f]])

(* Texts.  A text is the empty string, a text that is a well-formed JSON  *)
(* document denoting a value, or any other non-empty text.  Undefined is  *)
(* the absent response text; Absent is what getItem returns for a missing *)
(* key.                                                                    *)
Undefined == [kind |-> "undefined"]
Absent == [kind |-> "absent"]
EmptyText == [kind |-> "empty"]
Garbage == [kind |-> "garbage"]
JsonText(v) == [kind |-> "json", value |-> v]

\* JSON.stringify(v)
Stringify(v) == JsonText(v)

\* JSON.parse(t): the value denoted, or a thrown SyntaxError.
ParseThrows(t) == t.kind # "json"
ParseValue(t) == t.value

\* x || dflt for a text x: the empty string and undefined/null are falsy.
Truthy(t) == t.kind \in {"json", "garbage"}
OrElse(t, dflt) == IF Truthy(t) THEN t ELSE dflt

---------------------------------------------------------------------------
(* Error messages (setError arguments) *)

NoError == "null"
SizeError == "file-too-large"
CameraError == "camera-unavailable"
AnalysisError == "analysis-failed"

---------------------------------------------------------------------------
(* AnalysisResult objects and the inputs of a run *)

\* The fields every well-formed service answer carries.
FullFields(name, grade) ==
    [product_name |-> name, health_grade |-> grade,
     ingredients |-> "list", nutrition |-> "record"]

\* An entry written to the history by an earlier session at time ts.
OldEntry(ts) == SpreadWithTimestamp(Obj(FullFields("old", "B")), ts)

\* A history of k entries left by earlier sessions, most recent first,
\* with the timestamps k-1, ..., 0 (all before ClockStart).
OldHistory(k) == [i \in 1..k |-> OldEntry(k - i)]

\* The clock value at which a session starts: after every old entry.
ClockStart == HistCap

\* What the storage slot may hold when the page is opened.
SmallSnapshots ==
    {Absent, EmptyText, Garbage, Stringify(<<>>), Stringify(OldHistory(1))}
FullSnapshots ==
    {Stringify(OldHistory(HistCap - 1)), Stringify(OldHistory(HistCap))}

\* Response texts of the remote service.
GoodAnswer == Obj(FullFields("milk", "A"))
StampedAnswer ==
    Obj([product_name |-> "milk", health_grade |-> "A",
         ingredients |-> "list", nutrition |-> "record", timestamp |-> 0])
OddGradeAnswer == Obj(FullFields("milk", "Z"))
Responses ==
    {Undefined, EmptyText, Garbage, JsonText(Null), JsonText(GoodAnswer),
     JsonText(StampedAnswer), JsonText(OddGradeAnswer)}
FewResponses == {Garbage, JsonText(GoodAnswer), JsonText(StampedAnswer)}

\* Files the user can pick in the file dialog.
Files ==
    {[name |-> "a", size |-> MaxFileSize - 1],
     [name |-> "b", size |-> MaxFileSize],
     [name |-> "c", size |-> MaxFileSize + 1],
     [name |-> "d", size |-> 6 * 1000 * 1000]}
OneFile == {f \in Files : f.name = "a"}

\* Data URLs: of a decoded file, of a captured video frame, and the
\* "data:," that toDataURL gives for a canvas of zero width.
DataURL(content) == [type |-> "dataurl", of |-> content]
FrameURL == DataURL("frame")
BlankURL == DataURL("blank")

StreamIds == 1..MaxStreams

---------------------------------------------------------------------------
(* Pure helpers of the handlers *)

EmptyFields == [f \in {} |-> 0]

\* JSON.parse(response.text || '{}'): the text actually parsed.
ResponseText(text) == OrElse(text, JsonText(Obj(EmptyFields)))

Min(a, b) == IF a <= b THEN a ELSE b

\* Faulty variant of the append: [entry, ...prev] without the slice.
PrependUncapped(entry, prev) == <<entry>> \o prev

\* [entry, ...prev].slice(0, 10)
PrependCapped(entry, prev) ==
    LET all == <<entry>> \o prev
    IN  SubSeq(all, 1, Min(Len(all), HistCap))

\* prev.filter((_, i) => i !== index), i counted from `from`.
RECURSIVE FilterFrom(_, _, _)
FilterFrom(s, from, index) ==
    IF s = <<>> THEN <<>>
    ELSE (IF from # index THEN <<Head(s)>> ELSE <<>>)
         \o FilterFrom(Tail(s), from + 1, index)

\* Faulty variant of the filter: positions counted from 1.
RemoveAtOneBased(prev, index) == FilterFrom(prev, 1, index)

RemoveAt(prev, index) == FilterFrom(prev, 0, index)

\* Faulty variant of the size check: file.size >= 5 * 1024 * 1024.
TooLargeInclusive(file) == file.size >= MaxFileSize

\* file.size > 5 * 1024 * 1024
TooLarge(file) == file.size > MaxFileSize

\* Faulty variant of stopCamera's first statement: no track is stopped.
StopNoTracks(src, lv) == lv

\* stream.getTracks().forEach(track => track.stop()), run only when the
\* preview element has a srcObject: the streams still live afterwards.
StopTracks(src, lv) == IF src # 0 THEN lv \ {src} ELSE lv

\* The stream a granted getUserMedia call hands out: one not live yet.
FreshStream(lv) == CHOOSE s \in StreamIds \ lv : \A t \in StreamIds \ lv : s <= t

\* The save effect: runs after every render in which `history` changed.
CommitHistory(h) ==
    /\ history' = h
    /\ storage' = Stringify(h)

\* Faulty variant of the analyze button: never disabled.
AnalyzeEnabledWhileAnalyzing == image # Null

\* The values of AnalysisResult.health_grade the type declares.
Grades == {"A", "B", "C", "D", "E"}

\* v.health_grade (undefined when v has no such field).
GradeOf(v) ==
    IF IsObj(v) /\ "health_grade" \in DOMAIN v.fields
    THEN v.fields.health_grade
    ELSE "undefined"

\* Faulty variant of getGradeColor: no default branch, the last case
\* catches everything.
GetGradeColorNoDefault(grade) ==
    CASE grade = "A" -> "bg-green-500"
      [] grade = "B" -> "bg-lime-500"
      [] grade = "C" -> "bg-yellow-500"
      [] grade = "D" -> "bg-orange-500"
      [] OTHER -> "bg-red-500"

\* getGradeColor
GetGradeColor(grade) ==
    CASE grade = "A" -> "bg-green-500"
      [] grade = "B" -> "bg-lime-500"
      [] grade = "C" -> "bg-yellow-500"
      [] grade = "D" -> "bg-orange-500"
      [] grade = "E" -> "bg-red-500"
      [] OTHER -> "bg-gray-500"

\* The analyze button is rendered when an image is present and is
\* disabled while analyzing.
AnalyzeEnabled == image # Null /\ ~analyzing

---------------------------------------------------------------------------
(* Startup *)

\* The load effect's outcome for the text `saved` read from the slot: the
\* parsed history, or nothing (the initial [] stays) when the slot is
\* empty or JSON.parse throws.
LoadedHistory(saved) ==
    IF Truthy(saved) /\ ~ParseThrows(saved) THEN ParseValue(saved) ELSE <<>>

InitWith(snapshots) ==
    /\ phase = "mount"
    /\ loaded = <<>>
    /\ image = Null
    /\ analyzing = FALSE
    /\ result = Null
    /\ error = NoError
    /\ showCamera = FALSE
    /\ history = <<>>
    /\ storage \in snapshots
    /\ videoSrc = 0
    /\ live = {}
    /\ camPending = 0
    /\ decoding = {}
    /\ inflight = <<>>
    /\ now = ClockStart
    /\ deletes = 0
    /\ kept = LoadedHistory(storage)
    /\ lastOp = [op |-> "render"]

Init == InitWith(SmallSnapshots)

cameraVars == <<showCamera, videoSrc, live, camPending>>
historyVars == <<history, storage>>
startupVars == <<phase, loaded, kept>>

\* Faulty variant of the mount effects: a parse failure is shown to the
\* user.
MountEffectsSurfacesError ==
    /\ phase = "mount"
    /\ LET saved == storage
           queued == Truthy(saved) /\ ~ParseThrows(saved)
       IN  /\ loaded' = IF queued THEN ParseValue(saved) ELSE <<>>
           /\ phase' = IF queued THEN "load" ELSE "ready"
           /\ error' = IF Truthy(saved) /\ ParseThrows(saved)
                       THEN "history-load-failed" ELSE error
    /\ storage' = Stringify(history)
    /\ lastOp' = [op |-> "mountEffects", saved |-> storage]
    /\ UNCHANGED <<image, analyzing, result, history, cameraVars,
                   decoding, inflight, now, deletes, kept>>

\* The two mount effects, in order.  The load effect queues
\* setHistory(JSON.parse(saved)) when the slot holds a parsable text; the
\* save effect then writes the history of the first render, [].
MountEffects ==
    /\ phase = "mount"
    /\ LET saved == storage
           queued == Truthy(saved) /\ ~ParseThrows(saved)
       IN  /\ loaded' = IF queued THEN ParseValue(saved) ELSE <<>>
           /\ phase' = IF queued THEN "load" ELSE "ready"
    /\ storage' = Stringify(history)
    /\ lastOp' = [op |-> "mountEffects", saved |-> storage]
    /\ UNCHANGED <<image, analyzing, result, error, history, cameraVars,
                   decoding, inflight, now, deletes, kept>>

\* The re-render that commits the queued setHistory, and its save effect.
CommitLoaded ==
    /\ phase = "load"
    /\ CommitHistory(loaded)
    /\ phase' = "ready"
    /\ loaded' = <<>>
    /\ lastOp' = [op |-> "commitLoaded"]
    /\ UNCHANGED <<image, analyzing, result, error, cameraVars,
                   decoding, inflight, now, deletes, kept>>

\* The page is reloaded: the component is constructed anew (all state
\* cells at their initial values, no async operation of the old page
\* survives, the browser ends the old page's streams); only the storage
\* slot carries over.  `kept` records the history the user had: the one
\* in memory, or the one the old page was still starting up with.
Reload ==
    /\ kept' = IF phase = "ready" THEN history ELSE kept
    /\ phase' = "mount"
    /\ loaded' = <<>>
    /\ image' = Null
    /\ analyzing' = FALSE
    /\ result' = Null
    /\ error' = NoError
    /\ showCamera' = FALSE
    /\ history' = <<>>
    /\ videoSrc' = 0
    /\ live' = {}
    /\ camPending' = 0
    /\ decoding' = {}
    /\ inflight' = <<>>
    /\ lastOp' = [op |-> "reload"]
    /\ UNCHANGED <<storage, now, deletes>>

---------------------------------------------------------------------------
(* Analyzer client: analyzeProduct and the settling of its awaited call *)

\* The sequence s without its k-th element (k from 1).
Without(s, k) == SubSeq(s, 1, k - 1) \o SubSeq(s, k + 1, Len(s))

\* The analyze button's onClick, up to the await: setAnalyzing(true),
\* setError(null), and the request is sent with the current image.
AnalyzeProduct ==
    /\ phase = "ready"
    /\ AnalyzeEnabled
    /\ now < ClockStart + MaxClock
    /\ analyzing' = TRUE
    /\ error' = NoError
    /\ inflight' = Append(inflight, image)
    /\ lastOp' = [op |-> "analyzeProduct"]
    /\ UNCHANGED <<startupVars, image, result, historyVars, cameraVars,
                   decoding, now, deletes>>

\* Faulty variant of the success path: [...prev, resultWithMeta].
AnalysisSucceededAppends(data, ts) ==
    LET resultWithMeta == SpreadWithTimestamp(data, ts)
        all == Append(history, resultWithMeta)
    IN  /\ result' = resultWithMeta
        /\ CommitHistory(SubSeq(all, 1, Min(Len(all), HistCap)))
        /\ analyzing' = FALSE
        /\ UNCHANGED <<image, error>>

\* The try block after the await, when nothing throws: the parsed data is
\* stamped with Date.now(), displayed, and prepended to the history.
AnalysisSucceeded(data, ts) ==
    LET resultWithMeta == SpreadWithTimestamp(data, ts)
    IN  /\ result' = resultWithMeta
        /\ CommitHistory(PrependCapped(resultWithMeta, history))
        /\ analyzing' = FALSE
        /\ UNCHANGED <<image, error>>

\* Faulty variant of the failure path: the image is dropped as well.
AnalysisFailedDropsImage ==
    /\ error' = AnalysisError
    /\ analyzing' = FALSE
    /\ image' = Null
    /\ UNCHANGED <<result, historyVars>>

\* Faulty variant of the failure path: no finally block, analyzing stays.
AnalysisFailedStaysAnalyzing ==
    /\ error' = AnalysisError
    /\ UNCHANGED <<analyzing, image, result, historyVars>>

\* The catch and finally blocks.
AnalysisFailed ==
    /\ error' = AnalysisError
    /\ analyzing' = FALSE
    /\ UNCHANGED <<image, result, historyVars>>

\* generateContent resolved with a response whose text is `text`.  The
\* clock has advanced by the time the continuation runs.
AnalyzeReturn(k, text) ==
    /\ k \in 1..Len(inflight)
    /\ inflight' = Without(inflight, k)
    /\ now' = now + 1
    /\ LET parsed == ResponseText(text)
       IN  IF ParseThrows(parsed)
           THEN /\ AnalysisFailed
                /\ lastOp' = [op |-> "analyzeFailure", text |-> text,
                              sent |-> inflight[k]]
           ELSE /\ AnalysisSucceeded(ParseValue(parsed), now + 1)
                /\ lastOp' = [op |-> "analyzeSuccess", text |-> text,
                              sent |-> inflight[k]]
    /\ UNCHANGED <<startupVars, cameraVars, decoding, deletes>>

\* generateContent rejected (network or service error).
AnalyzeThrow(k) ==
    /\ k \in 1..Len(inflight)
    /\ inflight' = Without(inflight, k)
    /\ now' = now + 1
    /\ AnalysisFailed
    /\ lastOp' = [op |-> "analyzeFailure", text |-> Undefined,
                  sent |-> inflight[k]]
    /\ UNCHANGED <<startupVars, cameraVars, decoding, deletes>>

---------------------------------------------------------------------------
(* Capture: file path *)

\* The file input's onChange with a file selected (with no file selected
\* the handler does nothing).  A file that is still being read is not
\* offered again: onChange fires only when the selection changes.
HandleFileUpload(file) ==
    /\ phase = "ready"
    /\ file \notin decoding
    /\ IF TooLarge(file)
       THEN /\ error' = SizeError
            /\ UNCHANGED decoding
       ELSE /\ decoding' = decoding \cup {file}
            /\ UNCHANGED error
    /\ lastOp' = [op |-> "handleFileUpload", file |-> file]
    /\ UNCHANGED <<startupVars, image, analyzing, result, historyVars,
                   cameraVars, inflight, now, deletes>>

\* reader.onloadend: reader.result is the data URL, or null when the read
\* failed.
FileLoadEnd(file, ok) ==
    /\ file \in decoding
    /\ decoding' = decoding \ {file}
    /\ image' = IF ok THEN DataURL(file.name) ELSE Null
    /\ result' = Null
    /\ lastOp' = [op |-> "onloadend", file |-> file, ok |-> ok,
                   hadResult |-> result # Null]
    /\ UNCHANGED <<startupVars, analyzing, error, historyVars, cameraVars,
                   inflight, now, deletes>>

\* The button over the preview image: rendered when an image is present,
\* the camera is off and no analysis is running.
ClearImage ==
    /\ phase = "ready"
    /\ image # Null /\ ~showCamera /\ ~analyzing
    /\ image' = Null
    /\ result' = Null
    /\ lastOp' = [op |-> "clearImage"]
    /\ UNCHANGED <<startupVars, analyzing, error, historyVars, cameraVars,
                   decoding, inflight, now, deletes>>

---------------------------------------------------------------------------
(* Capture: camera path.  The <video> element is rendered only while      *)
(* showCamera is true, so videoRef.current is non-null exactly then, and  *)
(* a render with showCamera false unmounts it together with its           *)
(* srcObject reference.                                                    *)

\* The camera button's onClick, up to the await.  The button is always
\* rendered and never disabled.
StartCamera ==
    /\ phase = "ready"
    /\ camPending < MaxCamPending
    /\ showCamera' = TRUE
    /\ camPending' = camPending + 1
    /\ lastOp' = [op |-> "startCamera"]
    /\ UNCHANGED <<startupVars, image, analyzing, result, error, historyVars,
                   videoSrc, live, decoding, inflight, now, deletes>>

\* getUserMedia resolved with a stream: it is bound to the preview element
\* if there is one.
CameraGranted ==
    /\ camPending > 0
    /\ StreamIds \ live # {}
    /\ LET stream == FreshStream(live)
       IN  /\ live' = live \cup {stream}
           /\ videoSrc' = IF showCamera THEN stream ELSE videoSrc
    /\ camPending' = camPending - 1
    /\ lastOp' = [op |-> "cameraGranted"]
    /\ UNCHANGED <<startupVars, image, analyzing, result, error, showCamera,
                   historyVars, decoding, inflight, now, deletes>>

\* getUserMedia rejected: the catch block.
CameraDenied ==
    /\ camPending > 0
    /\ camPending' = camPending - 1
    /\ error' = CameraError
    /\ showCamera' = FALSE
    /\ videoSrc' = 0
    /\ lastOp' = [op |-> "cameraDenied", bound |-> videoSrc]
    /\ UNCHANGED <<startupVars, image, analyzing, result, historyVars, live,
                   decoding, inflight, now, deletes>>

\* stopCamera's body: the bound stream's tracks are stopped, camera mode
\* is left, and the preview element is unmounted.
StopCameraBody ==
    /\ live' = StopTracks(videoSrc, live)
    /\ showCamera' = FALSE
    /\ videoSrc' = 0

\* The cancel button of the camera overlay.
StopCamera ==
    /\ phase = "ready"
    /\ showCamera
    /\ StopCameraBody
    /\ lastOp' = [op |-> "stopCamera", bound |-> videoSrc]
    /\ UNCHANGED <<startupVars, image, analyzing, result, error, historyVars,
                   camPending, decoding, inflight, now, deletes>>

\* Faulty variant of the shutter button: the displayed result is kept.
CapturePhotoKeepsResult ==
    /\ phase = "ready"
    /\ showCamera
    /\ image' = IF videoSrc # 0 THEN FrameURL ELSE BlankURL
    /\ StopCameraBody
    /\ lastOp' = [op |-> "capturePhoto", bound |-> videoSrc,
                   hadResult |-> result # Null]
    /\ UNCHANGED <<startupVars, analyzing, result, error, historyVars,
                   camPending, decoding, inflight, now, deletes>>

\* The shutter button of the camera overlay.  The hidden canvas is always
\* mounted and has no other context, so getContext('2d') is non-null.
\* Without a bound stream the video has width 0 and toDataURL gives
\* "data:,".
CapturePhoto ==
    /\ phase = "ready"
    /\ showCamera
    /\ image' = IF videoSrc # 0 THEN FrameURL ELSE BlankURL
    /\ StopCameraBody
    /\ result' = Null
    /\ lastOp' = [op |-> "capturePhoto", bound |-> videoSrc,
                   hadResult |-> result # Null]
    /\ UNCHANGED <<startupVars, analyzing, error, historyVars, camPending,
                   decoding, inflight, now, deletes>>

---------------------------------------------------------------------------
(* History store.  The history section, with its buttons, is rendered     *)
(* only when the history is not empty.                                     *)

\* The trash button of the entry at position index (from 0).
DeleteHistoryItem(index) ==
    /\ phase = "ready"
    /\ index \in 0..(Len(history) - 1)
    /\ deletes < MaxDeletes
    /\ deletes' = deletes + 1
    /\ CommitHistory(RemoveAt(history, index))
    /\ lastOp' = [op |-> "deleteHistoryItem", index |-> index]
    /\ UNCHANGED <<startupVars, image, analyzing, result, error, cameraVars,
                   decoding, inflight, now>>

\* Faulty variant of the clear-all button: the answer is ignored.
ClearHistoryUnconfirmed(confirmed) ==
    /\ phase = "ready"
    /\ Len(history) > 0
    /\ CommitHistory(<<>>)
    /\ lastOp' = [op |-> "clearHistory", confirmed |-> confirmed]
    /\ UNCHANGED <<startupVars, image, analyzing, result, error, cameraVars,
                   decoding, inflight, now, deletes>>

\* The clear-all button; confirmed is the answer given to confirm().
ClearHistory(confirmed) ==
    /\ phase = "ready"
    /\ Len(history) > 0
    /\ IF confirmed THEN CommitHistory(<<>>) ELSE UNCHANGED historyVars
    /\ lastOp' = [op |-> "clearHistory", confirmed |-> confirmed]
    /\ UNCHANGED <<startupVars, image, analyzing, result, error, cameraVars,
                   decoding, inflight, now, deletes>>

\* Faulty variant of the entry click: the entry is also moved to the front.
SelectHistoryItemMovesToFront(index) ==
    /\ phase = "ready"
    /\ index \in 0..(Len(history) - 1)
    /\ result' = history[index + 1]
    /\ CommitHistory(<<history[index + 1]>> \o RemoveAt(history, index))
    /\ lastOp' = [op |-> "selectHistoryItem", index |-> index]
    /\ UNCHANGED <<startupVars, image, analyzing, error,
                   cameraVars, decoding, inflight, now, deletes>>

\* A click on the entry at position index (from 0).
SelectHistoryItem(index) ==
    /\ phase = "ready"
    /\ index \in 0..(Len(history) - 1)
    /\ result' = history[index + 1]
    /\ lastOp' = [op |-> "selectHistoryItem", index |-> index]
    /\ UNCHANGED <<startupVars, image, analyzing, error, historyVars,
                   cameraVars, decoding, inflight, now, deletes>>

---------------------------------------------------------------------------
(* Specifications *)

Positions == 0..(HistCap - 1)
Pending == 1..Len(inflight)

\* The whole component, opened on a short or missing snapshot.
Next ==
    \/ MountEffects
    \/ CommitLoaded
    \/ Reload
    \/ AnalyzeProduct
    \/ \E k \in Pending, text \in Responses : AnalyzeReturn(k, text)
    \/ \E k \in Pending : AnalyzeThrow(k)
    \/ \E file \in Files : HandleFileUpload(file)
    \/ \E file \in Files, ok \in BOOLEAN : FileLoadEnd(file, ok)
    \/ ClearImage
    \/ StartCamera
    \/ CameraGranted
    \/ CameraDenied
    \/ StopCamera
    \/ CapturePhoto
    \/ \E index \in Positions : DeleteHistoryItem(index)
    \/ \E confirmed \in BOOLEAN : ClearHistory(confirmed)
    \/ \E index \in Positions : SelectHistoryItem(index)

Spec == Init /\ [][Next]_vars

(* The component restricted to one concern.  Each restriction keeps every *)
(* action that writes a variable read by the actions it keeps, except     *)
(* that the image may come from the file path alone: the actions left out *)
(* write none of the variables the kept guards read, other than `image`   *)
(* and `result`, which the kept file actions already set and clear.       *)

\* Camera path: the camera handlers write showCamera, videoSrc, live and
\* camPending, and no other action writes or guards on them.
NextCamera ==
    \/ MountEffects
    \/ CommitLoaded
    \/ StartCamera
    \/ CameraGranted
    \/ CameraDenied
    \/ StopCamera
    \/ CapturePhoto

SpecCamera == Init /\ [][NextCamera]_vars

\* Both capture paths together: the camera handlers and the file handlers.
NextCapture ==
    \/ MountEffects
    \/ CommitLoaded
    \/ StartCamera
    \/ CameraGranted
    \/ CameraDenied
    \/ StopCamera
    \/ CapturePhoto
    \/ \E file \in Files : HandleFileUpload(file)
    \/ \E file \in Files, ok \in BOOLEAN : FileLoadEnd(file, ok)
    \/ ClearImage

SpecCapture == Init /\ [][NextCapture]_vars

\* Both capture paths with a result on display: a saved history entry can
\* be selected before or between acquisitions.
NextAcquire ==
    \/ MountEffects
    \/ CommitLoaded
    \/ StartCamera
    \/ CameraGranted
    \/ CameraDenied
    \/ StopCamera
    \/ CapturePhoto
    \/ \E file \in Files : HandleFileUpload(file)
    \/ \E file \in Files, ok \in BOOLEAN : FileLoadEnd(file, ok)
    \/ ClearImage
    \/ \E index \in Positions : SelectHistoryItem(index)

SpecAcquire == Init /\ [][NextAcquire]_vars

\* Analyzer client and file path, with every kind of response and file.
NextAnalyzer ==
    \/ MountEffects
    \/ CommitLoaded
    \/ AnalyzeProduct
    \/ \E k \in Pending, text \in Responses : AnalyzeReturn(k, text)
    \/ \E k \in Pending : AnalyzeThrow(k)
    \/ \E file \in Files : HandleFileUpload(file)
    \/ \E file \in Files, ok \in BOOLEAN : FileLoadEnd(file, ok)
    \/ ClearImage
    \/ \E index \in Positions : SelectHistoryItem(index)

SpecAnalyzer == Init /\ [][NextAnalyzer]_vars

\* The awaited generateContent call settles: it resolves with some
\* response or rejects.
Settle ==
    \/ \E k \in Pending, text \in Responses : AnalyzeReturn(k, text)
    \/ \E k \in Pending : AnalyzeThrow(k)

\* The same, assuming every remote call eventually returns or throws.
SpecAnalyzerFair == SpecAnalyzer /\ WF_vars(Settle)

\* History store, opened on a short, missing, nearly full or full
\* snapshot, with one file and a few responses.
InitHistory == InitWith(SmallSnapshots \cup FullSnapshots)

NextHistory ==
    \/ MountEffects
    \/ CommitLoaded
    \/ AnalyzeProduct
    \/ \E k \in Pending, text \in FewResponses : AnalyzeReturn(k, text)
    \/ \E k \in Pending : AnalyzeThrow(k)
    \/ \E file \in OneFile : HandleFileUpload(file)
    \/ \E file \in OneFile : FileLoadEnd(file, TRUE)
    \/ \E index \in Positions : DeleteHistoryItem(index)
    \/ \E confirmed \in BOOLEAN : ClearHistory(confirmed)
    \/ \E index \in Positions : SelectHistoryItem(index)

SpecHistory == InitHistory /\ [][NextHistory]_vars

\* Persistence: the history store with page reloads, opened on a short
\* or missing snapshot.
NextPersist ==
    \/ MountEffects
    \/ CommitLoaded
    \/ Reload
    \/ AnalyzeProduct
    \/ \E k \in Pending, text \in FewResponses : AnalyzeReturn(k, text)
    \/ \E k \in Pending : AnalyzeThrow(k)
    \/ \E file \in OneFile : HandleFileUpload(file)
    \/ \E file \in OneFile : FileLoadEnd(file, TRUE)
    \/ \E index \in Positions : DeleteHistoryItem(index)
    \/ \E confirmed \in BOOLEAN : ClearHistory(confirmed)

SpecPersist == Init /\ [][NextPersist]_vars

---------------------------------------------------------------------------
(* Properties *)

Succeeded == lastOp'.op = "analyzeSuccess"
Failed == lastOp'.op = "analyzeFailure"

\* C1: the history never holds more than 10 entries; a successful
\* analysis on a history of 10 entries leaves 10 entries, the new one at
\* position 0, the former first 9 after it in their order, and the former
\* last entry gone.
C1_HistoryCapped ==
    /\ [](Len(history) <= HistCap)
    /\ [][(Succeeded /\ Len(history) = HistCap) =>
            /\ Len(history') = HistCap
            /\ history'[1].fields.timestamp = now'
            /\ \A j \in 1..(HistCap - 1) : history'[j + 1] = history[j]
            /\ \A j \in 1..HistCap : history'[j] # history[HistCap]]_vars

\* A successful analysis has just completed on the full snapshot, with
\* nothing deleted before: the entry of time 0 is gone, that of time 1 is
\* last.
C1_Witness ==
    /\ lastOp.op = "analyzeSuccess"
    /\ deletes = 0
    /\ Len(history) = HistCap
    /\ history[1].fields.timestamp > ClockStart
    /\ history[2] = OldEntry(HistCap - 1)
    /\ history[HistCap] = OldEntry(1)

\* C2: while camera mode is off, no acquired stream has an active track.
C2_NoLiveStreamWhenCameraOff == ~showCamera => live = {}

\* C3: when stopCamera runs (cancel button or capturePhoto) with a stream
\* bound to the preview element, that stream's tracks are stopped and
\* camera mode is off afterwards.
C3_StopReleasesBoundStream ==
    [][(lastOp'.op \in {"stopCamera", "capturePhoto"} /\ videoSrc # 0) =>
         (videoSrc \notin live' /\ ~showCamera')]_vars

\* capturePhoto has just run with a bound stream.
C3_Witness ==
    /\ lastOp.op = "capturePhoto"
    /\ lastOp.bound # 0
    /\ lastOp.bound \notin live
    /\ image = FrameURL
    /\ ~showCamera

\* C4: at most one analysis request is outstanding, and one is
\* outstanding exactly while analyzing is true; analyzeProduct starts
\* only with analyzing false and an image present, and sets analyzing.
C4_OneAnalysisAtATime ==
    /\ [](Len(inflight) <= 1 /\ (analyzing <=> Len(inflight) = 1))
    /\ [][lastOp'.op = "analyzeProduct" =>
            (~analyzing /\ image # Null /\ analyzing')]_vars

\* A request is outstanding and the user has just replaced the image.
C4_Witness ==
    /\ analyzing
    /\ Len(inflight) = 1
    /\ lastOp.op = "onloadend"
    /\ image # Null
    /\ image # inflight[1]

\* C5: a file of more than 5*1024*1024 bytes sets the size error, starts
\* no decode and leaves image, result and history unchanged; a file of at
\* most 5*1024*1024 bytes is handed to a reader.
C5_OversizedFileRejected ==
    [][lastOp'.op = "handleFileUpload" =>
         LET file == lastOp'.file
         IN  IF file.size > 5 * 1024 * 1024
             THEN /\ error' = SizeError
                  /\ decoding' = decoding
                  /\ image' = image
                  /\ result' = result
                  /\ history' = history
             ELSE file \in decoding']_vars

\* An oversized file has just been rejected while an image, a displayed
\* result and a history entry were present.
C5_Witness ==
    /\ lastOp.op = "handleFileUpload"
    /\ lastOp.file.size = 5 * 1024 * 1024 + 1
    /\ error = SizeError
    /\ decoding = {}
    /\ image # Null
    /\ result # Null
    /\ Len(history) > 0

\* C6: a failed analysis sets the analysis-failure message and resets
\* analyzing, leaves image, history and the persisted snapshot unchanged,
\* and sends no new request.
C6_FailureKeepsState ==
    [][Failed =>
         /\ error' = AnalysisError
         /\ ~analyzing'
         /\ image' = image
         /\ history' = history
         /\ storage' = storage
         /\ Len(inflight') = Len(inflight) - 1]_vars

\* An unparsable response has just failed an analysis, with an image and
\* a persisted history present.
C6_Witness ==
    /\ lastOp.op = "analyzeFailure"
    /\ lastOp.text = Garbage
    /\ error = AnalysisError
    /\ ~analyzing
    /\ image = lastOp.sent
    /\ Len(history) > 0
    /\ storage = Stringify(history)

\* Texts that are not valid JSON: absent, empty, or malformed.
NotValidJSON(text) == text.kind \in {"undefined", "empty", "garbage"}

\* C7: a response whose text is not valid JSON (an empty or absent text
\* included) ends the analysis in failure: the failure message is set,
\* no result is displayed from it and the history gets no entry.
C7_InvalidJSONFails ==
    [][((Succeeded \/ Failed) /\ NotValidJSON(lastOp'.text)) =>
         /\ Failed
         /\ error' = AnalysisError
         /\ result' = result
         /\ history' = history]_vars

C9_TimestampIsLocal ==
    [][Succeeded =>
         /\ result'.fields.timestamp = now'
         /\ history'[1].fields.timestamp = now']_vars

\* A response carrying its own timestamp field has just succeeded.
C9_Witness ==
    /\ lastOp.op = "analyzeSuccess"
    /\ lastOp.text = JsonText(StampedAnswer)
    /\ StampedAnswer.fields.timestamp # now
    /\ result.fields.timestamp = now

\* C10: deleteHistoryItem(i) on a history of length n, 0 <= i < n, leaves
\* n-1 entries: those before position i in place, those after it moved up
\* by one; the displayed result and the image are unchanged.
C10_DeleteRemovesExactlyOne ==
    [][lastOp'.op = "deleteHistoryItem" =>
         LET i == lastOp'.index
             n == Len(history)
         IN  /\ 0 <= i /\ i < n
             /\ Len(history') = n - 1
             /\ \A j \in 1..i : history'[j] = history[j]
             /\ \A j \in (i + 1)..(n - 1) : history'[j] = history[j + 1]
             /\ result' = result
             /\ image' = image]_vars

\* An entry in the middle of the full snapshot has just been deleted
\* while a result was displayed and an image was present.
C10_Witness ==
    /\ lastOp.op = "deleteHistoryItem"
    /\ lastOp.index = 4
    /\ Len(history) = HistCap - 1
    /\ history[4] = OldEntry(HistCap - 4)
    /\ history[5] = OldEntry(HistCap - 6)
    /\ result # Null
    /\ image # Null

\* C11: the clear-all button empties the history (and the snapshot) when
\* the prompt is confirmed, and changes neither when it is declined.
C11_ClearNeedsConfirmation ==
    [][lastOp'.op = "clearHistory" =>
         IF lastOp'.confirmed
         THEN history' = <<>> /\ storage' = Stringify(<<>>)
         ELSE history' = history /\ storage' = storage]_vars

\* The prompt has just been declined on a full history.
C11_Witness ==
    /\ lastOp.op = "clearHistory"
    /\ ~lastOp.confirmed
    /\ Len(history) = HistCap
    /\ storage = Stringify(history)

\* C12: selecting the entry at a position displays that entry and leaves
\* the history, the snapshot, the image, the analyzing flag and the
\* outstanding requests unchanged.
C12_SelectOnlyDisplays ==
    [][lastOp'.op = "selectHistoryItem" =>
         /\ result' = history[lastOp'.index + 1]
         /\ history' = history
         /\ storage' = storage
         /\ image' = image
         /\ analyzing' = analyzing
         /\ inflight' = inflight]_vars

\* An entry that is not the first has just been selected while an
\* analysis was outstanding.
C12_Witness ==
    /\ lastOp.op = "selectHistoryItem"
    /\ lastOp.index = 3
    /\ Len(history) = HistCap
    /\ result = history[4]
    /\ result # history[1]
    /\ analyzing

\* C13: once the component is interactive the snapshot equals the
\* in-memory history after every mutation, and a session started by a
\* reload comes up with the history the user had at the reload.
C13_HistorySurvivesReload ==
    /\ [](phase = "ready" => storage = Stringify(history))
    /\ [][(phase # "ready" /\ phase' = "ready") => history' = kept]_vars

\* C14: when the snapshot is absent or cannot be parsed at startup, the
\* history starts empty and no error message is set.
C14_BadSnapshotStartsEmpty ==
    [][(lastOp'.op = "mountEffects"
        /\ (storage = Absent \/ ParseThrows(storage))) =>
         /\ phase' = "ready"
         /\ history' = <<>>
         /\ error' = NoError]_vars

\* The component has just started on an unparsable snapshot.
C14_Witness ==
    /\ lastOp.op = "mountEffects"
    /\ lastOp.saved = Garbage
    /\ phase = "ready"
    /\ history = <<>>
    /\ error = NoError

\* C15: when the camera request is denied or fails, the camera error is
\* set, camera mode is off afterwards and no acquired stream is left with
\* active tracks.
C15_DenialLeavesNoStream ==
    [][lastOp'.op = "cameraDenied" =>
         /\ error' = CameraError
         /\ ~showCamera'
         /\ live' = {}]_vars

\* C17: the camera path and the file path exclude each other: no file
\* decode is pending while camera mode is on or a camera request is
\* pending, and none completes then.
C17_PathsExclusive ==
    /\ []((showCamera \/ camPending > 0) => decoding = {})
    /\ [][lastOp'.op = "onloadend" => (~showCamera /\ camPending = 0)]_vars

\* C18: at most one camera request and at most one file decode are
\* outstanding at any time.
C18_OneSuspensionEach == camPending <= 1 /\ Cardinality(decoding) <= 1

\* C16 (as claimed): every history entry and every displayed result has a
\* health_grade among A, B, C, D, E.
C16_GradeAlwaysEnumerated ==
    /\ \A i \in 1..Len(history) : GradeOf(history[i]) \in Grades
    /\ result # Null => GradeOf(result) \in Grades

\* C16 (amended): a successful analysis displays and stores the
\* health_grade of the response unchanged (none when the response has
\* none), and a grade is rendered with the fallback colour exactly when
\* it is not one of A, B, C, D, E.
C16_GradeCopiedUnvalidated ==
    /\ [][Succeeded =>
            LET data == ParseValue(ResponseText(lastOp'.text))
            IN  /\ GradeOf(result') = GradeOf(data)
                /\ GradeOf(history'[1]) = GradeOf(data)]_vars
    /\ [](\A i \in 1..Len(history) :
             LET grade == GradeOf(history[i])
             IN  grade \in Grades <=> GetGradeColor(grade) # "bg-gray-500")

\* A response with a grade outside A..E has just succeeded.
C16_Witness ==
    /\ lastOp.op = "analyzeSuccess"
    /\ lastOp.text = JsonText(OddGradeAnswer)
    /\ GradeOf(result) = "Z"
    /\ GradeOf(history[1]) = "Z"
    /\ GetGradeColor(GradeOf(history[1])) = "bg-gray-500"

\* C19: every analysis that is started ends (analyzing becomes false
\* again); it ends only by the settling of the request, with the new
\* result displayed and first in the history or with the failure message
\* set; no other step resets analyzing or drops the request.
C19_AnalysisEnds ==
    /\ analyzing ~> ~analyzing
    /\ [][(analyzing /\ ~analyzing') =>
            \/ Succeeded /\ result' # Null /\ history'[1] = result'
            \/ Failed /\ error' = AnalysisError]_vars
    /\ [][(analyzing /\ ~(Succeeded \/ Failed)) =>
            (analyzing' /\ inflight' = inflight)]_vars
    /\ [][(analyzing /\ (Succeeded \/ Failed)) => ~analyzing']_vars

\* A request has just been rejected and the analysis has ended.
C19_Witness ==
    /\ lastOp.op = "analyzeFailure"
    /\ lastOp.text = Undefined
    /\ ~analyzing
    /\ inflight = <<>>
    /\ error = AnalysisError
    /\ image # Null

\* C20: when a successful analysis sets the displayed result, the current
\* image is the image that was submitted for it.
C20_ResultMatchesImage ==
    [][Succeeded => image' = lastOp'.sent]_vars

\* C21: every accepted image acquisition clears the displayed result: when
\* a file decode completes (reader.result is the data URL) and when
\* capturePhoto stores a frame, the current image becomes the new image,
\* the displayed result becomes empty, and the history and its saved copy
\* are unchanged.
C21_AcquisitionClearsResult ==
    /\ [][(lastOp'.op = "onloadend" /\ lastOp'.ok) =>
            /\ image' = DataURL(lastOp'.file.name)
            /\ result' = Null
            /\ history' = history /\ storage' = storage]_vars
    /\ [][lastOp'.op = "capturePhoto" =>
            /\ image' = (IF lastOp'.bound # 0 THEN FrameURL ELSE BlankURL)
            /\ result' = Null
            /\ history' = history /\ storage' = storage]_vars

\* A frame has just been captured from a bound stream while a saved
\* entry was on display and another image was current.
C21_Witness ==
    /\ lastOp.op = "capturePhoto"
    /\ lastOp.hadResult
    /\ lastOp.bound # 0
    /\ image = FrameURL
    /\ result = Null
    /\ history # <<>>
    /\ storage = Stringify(history)

=============================================================================
